---------------------------- MODULE Spec2Model ----------------------------
(***************************************************************************)
(* Layered configuration resolution of src/core/config.py: BaseSettings    *)
(* (source chain built by settings_customise_sources, merged first-wins,   *)
(* validated, then back-filled by the _fill_linked_fields validator).      *)
(*                                                                         *)
(* One behaviour is one construction of an instance of a settings class    *)
(* from keyword arguments: the schema, the arguments, the environment,     *)
(* the files on disk and the secrets directory are chosen in Init and      *)
(* never change; the actions are the steps of the construction.            *)
(***************************************************************************)
EXTENDS Naturals, Sequences, FiniteSets

VARIABLES
    model_fields,      \* cls.model_fields: field name -> declaration
    init_kwargs,       \* construction arguments: field name -> value | Absent
    environ,           \* os.environ restricted to the field names
    config_files_str,  \* os.getenv("CONFIG_FILES"): [present, text], text a sequence of characters
    disk,              \* path -> [exists, body], body: field name -> value | Absent
    secrets,           \* the secrets directory: field name -> value | Absent
    pc,                \* position of the construction
    sources,           \* the tuple returned by settings_customise_sources
    state,             \* the merged source values handed to validation
    values,            \* the attributes of self (field name -> value)
    idx,               \* position of the for loop of _fill_linked_fields
    record,            \* a SoftDeleteMixin instance: [is_deleted, deleted_at]
    row,               \* the row of that instance as last saved
    now,               \* the clock read by datetime.now
    ops,               \* the soft_delete and restore calls made on the record so far
    redis_manager,     \* a RedisManager: [redis_url, redis_class, _pool]
    shared_redis_manager, \* the module-level manager of src/core/redis.py
    pools,             \* the ConnectionPool objects made so far: disconnect() calls on each
    result,            \* what the last call on a manager or on the module returned or raised
    calls,             \* the calls made on the manager and on the module so far
    ctx_pc,            \* position of application_context
    DEBUG,             \* settings.DEBUG as application_context reads it
    db,                \* the connections of Tortoise: "uninit", "open" or "closed"
    ctx,               \* AppContext.redis, the client application_context yields
    exc,               \* an exception raised by the body is propagating
    runs               \* the times application_context was entered

record_vars == <<record, row, now, ops>>

redis_vars == <<redis_manager, shared_redis_manager, pools, result, calls>>

context_vars == <<ctx_pc, DEBUG, db, ctx, exc, runs>>

settings_vars == <<model_fields, init_kwargs, environ, config_files_str, disk, secrets,
                   pc, sources, state, values, idx>>

vars == <<settings_vars, record_vars, redis_vars, context_vars>>

inputs == <<model_fields, init_kwargs, environ, config_files_str, disk, secrets>>

---------------------------------------------------------------------------
(* Values and sentinels *)

None == "None"            \* Python None
Absent == "Absent"        \* a source does not provide the field
NoRef == "NoRef"          \* the field carries no refer_to metadata
Required == "Required"    \* the field is declared without a default

\* the declared fields, in declaration order (the order model_fields.items() iterates)
FieldOrder == <<"f1", "f2", "f3">>

FieldNames == {FieldOrder[i] : i \in 1..Len(FieldOrder)}

\* a refer_to name that no schema declares
NonexistentField == "nonexistent_field"

\* the longest CONFIG_FILES string drawn
MaxConfigLen == 3

\* the characters CONFIG_FILES strings are drawn from
Chars == {"a", "b", ",", " "}

Whitespace == {" "}

\* the paths at which a file may exist; ".env" is the default env_file
DefaultEnvFile == <<".env">>

CascadePaths == {<<"a">>, <<"b">>}

DiskPaths == CascadePaths \cup {DefaultEnvFile}

NoValues == [f \in FieldNames |-> Absent]

---------------------------------------------------------------------------
(* CONFIG_FILES parsing: config.py lines 86-96 *)

RECURSIVE lstrip(_)
lstrip(s) == IF s # <<>> /\ Head(s) \in Whitespace THEN lstrip(Tail(s)) ELSE s

RECURSIVE rstrip(_)
rstrip(s) ==
    IF s # <<>> /\ s[Len(s)] \in Whitespace
    THEN rstrip(SubSeq(s, 1, Len(s) - 1))
    ELSE s

\* str.strip(): leading and trailing whitespace removed
strip(s) == rstrip(lstrip(s))

RECURSIVE split(_, _)
\* str.split(sep): the pieces between the separators, empty pieces included
split(s, sep) ==
    IF \A i \in 1..Len(s) : s[i] # sep
    THEN <<s>>
    ELSE LET i == CHOOSE k \in 1..Len(s) :
                      s[k] = sep /\ \A j \in 1..(k - 1) : s[j] # sep
         IN  <<SubSeq(s, 1, i - 1)>> \o split(SubSeq(s, i + 1, Len(s)), sep)

reversed(seq) == [i \in 1..Len(seq) |-> seq[Len(seq) + 1 - i]]

\* [path.strip() for path in config_files_str.split(",")]
config_files(str) ==
    LET pieces == split(str, ",")
    IN  [i \in 1..Len(pieces) |-> strip(pieces[i])]

---------------------------------------------------------------------------
(* The sources *)

init_settings == [kind |-> "init", env_file |-> <<>>]

env_settings == [kind |-> "env", env_file |-> <<>>]

\* the default source of model_config: env_file=".env"
dotenv_settings == [kind |-> "dotenv", env_file |-> DefaultEnvFile]

file_secret_settings == [kind |-> "secrets", env_file |-> <<>>]

DotEnvSettingsSource(path) == [kind |-> "dotenv", env_file |-> path]

\* the listed order kept: for path in config_files
custom_dotenv_sources_not_reversed(str) ==
    IF ~str.present \/ str.text = <<>>
    THEN <<>>
    ELSE LET files == config_files(str.text)
         IN  [i \in 1..Len(files) |-> DotEnvSettingsSource(files[i])]

\* the test  config_files_str is not None  in place of  if config_files_str
custom_dotenv_sources_if_not_none(str) ==
    IF ~str.present
    THEN <<>>
    ELSE LET files == reversed(config_files(str.text))
         IN  [i \in 1..Len(files) |-> DotEnvSettingsSource(files[i])]

\* no CONFIG_FILES source at all once a listed path is not a file
custom_dotenv_sources_all_or_nothing(str) ==
    IF ~str.present \/ str.text = <<>>
    THEN <<>>
    ELSE LET files == reversed(config_files(str.text))
         IN  IF \A i \in 1..Len(files) : files[i] \in DOMAIN disk /\ disk[files[i]].exists
             THEN [i \in 1..Len(files) |-> DotEnvSettingsSource(files[i])]
             ELSE <<>>

\* if config_files_str: one source per listed path, the list reversed
custom_dotenv_sources(str) ==
    IF ~str.present \/ str.text = <<>>
    THEN <<>>
    ELSE LET files == reversed(config_files(str.text))
         IN  [i \in 1..Len(files) |-> DotEnvSettingsSource(files[i])]

\* the environment placed before the construction arguments
customise_sources_env_first(str) ==
    <<env_settings, init_settings>>
        \o custom_dotenv_sources(str)
        \o <<dotenv_settings, file_secret_settings>>

\* the CONFIG_FILES sources placed before the environment
customise_sources_files_first(str) ==
    <<init_settings>>
        \o custom_dotenv_sources(str)
        \o <<env_settings, dotenv_settings, file_secret_settings>>

\* the default .env source placed before the CONFIG_FILES sources
customise_sources_dotenv_first(str) ==
    <<init_settings, env_settings, dotenv_settings>>
        \o custom_dotenv_sources(str)
        \o <<file_secret_settings>>

\* the tuple returned by settings_customise_sources
customise_sources(str) ==
    <<init_settings, env_settings>>
        \o custom_dotenv_sources(str)
        \o <<dotenv_settings, file_secret_settings>>

\* a dotenv source reads its file if it is a file, else yields nothing
read_env_file(path) ==
    IF path \in DOMAIN disk /\ disk[path].exists
    THEN disk[path].body
    ELSE NoValues

\* what calling a source yields: field name -> value | Absent
source_state(src) ==
    CASE src.kind = "init" -> init_kwargs
      [] src.kind = "env" -> environ
      [] src.kind = "dotenv" -> read_env_file(src.env_file)
      [] src.kind = "secrets" -> secrets

\* deep_update(mapping, updating): the keys of updating replace those of mapping
deep_update(mapping, updating) ==
    [f \in FieldNames |-> IF updating[f] # Absent THEN updating[f] ELSE mapping[f]]

RECURSIVE build_values(_, _)
\* for source in sources: state = deep_update(source(), state)
build_values(srcs, st) ==
    IF srcs = <<>>
    THEN st
    ELSE build_values(Tail(srcs), deep_update(source_state(Head(srcs)), st))

---------------------------------------------------------------------------
(* Validation of the merged values against the declarations.  The settings *)
(* base class validates defaults too (validate_default), so a None default *)
(* of a field whose type does not admit None is rejected.                  *)

\* the value validation sees for field f: the merged value, else the default
field_input(st, f) == IF st[f] # Absent THEN st[f] ELSE model_fields[f].default

field_valid(st, f) ==
    /\ field_input(st, f) # Required
    /\ field_input(st, f) = None => model_fields[f].nullable

validation_ok(st) == \A f \in FieldNames : field_valid(st, f)

validated_values(st) == [f \in FieldNames |-> field_input(st, f)]

---------------------------------------------------------------------------
(* _fill_linked_fields: one iteration of its for loop, config.py 121-126 *)

\* getattr(self, refer_key, None)
referred_value(vals, refer_key) ==
    IF refer_key \in FieldNames THEN vals[refer_key] ELSE None

\* the check that the current value is None left out
fill_linked_field_overwrite(vals, field_name) ==
    LET refer_key == model_fields[field_name].refer_to
    IN  IF refer_key # NoRef /\ referred_value(vals, refer_key) # None
        THEN [vals EXCEPT ![field_name] = referred_value(vals, refer_key)]
        ELSE vals

\* the value of the referenced field's declaration in place of its attribute
fill_linked_field_from_default(vals, field_name) ==
    LET refer_key == model_fields[field_name].refer_to
        referred == IF refer_key \in FieldNames THEN model_fields[refer_key].default ELSE None
    IN  IF refer_key # NoRef /\ vals[field_name] = None /\ referred \notin {None, Required}
        THEN [vals EXCEPT ![field_name] = referred]
        ELSE vals

fill_linked_field(vals, field_name) ==
    LET refer_key == model_fields[field_name].refer_to
    IN  IF refer_key # NoRef
             /\ vals[field_name] = None
             /\ referred_value(vals, refer_key) # None
        THEN [vals EXCEPT ![field_name] = referred_value(vals, refer_key)]
        ELSE vals

\* the loop stays on a linked field until it has a value
next_field_until_filled(vals, i) ==
    IF model_fields[FieldOrder[i]].refer_to # NoRef /\ vals[FieldOrder[i]] = None
    THEN i
    ELSE i + 1

\* the for loop goes on to the next declared field, whatever the iteration did
next_field(vals, i) == i + 1

---------------------------------------------------------------------------
(* The inputs of a construction *)

RECURSIVE StringsUpTo(_)
StringsUpTo(n) ==
    IF n = 0
    THEN {<<>>}
    ELSE LET shorter == StringsUpTo(n - 1)
         IN  shorter \cup {Append(t, c) : t \in {u \in shorter : Len(u) = n - 1}, c \in Chars}

Unset == [present |-> FALSE, text |-> <<>>]

ConfigFilesStrings ==
    {Unset} \cup {[present |-> TRUE, text |-> t] : t \in StringsUpTo(MaxConfigLen)}

ReferTargets == FieldNames \cup {NonexistentField}

\* name: Optional[str] = Field(default=None | "d")
\* name: Optional[str] | str = refer_to_field(refer_to=..., default=None | "d")
\* name: str   (required)
\* the non-None default a declaration of field f may give
DefaultOf(f) ==
    CASE f = "f1" -> "d1"
      [] f = "f2" -> "d2"
      [] OTHER -> "d3"

DeclarationsOf(f) ==
    [refer_to : {NoRef} \cup ReferTargets, default : {None, DefaultOf(f)}, nullable : BOOLEAN]
        \cup [refer_to : {NoRef}, default : {Required}, nullable : {FALSE}]

Schemas ==
    {m \in [FieldNames -> UNION {DeclarationsOf(f) : f \in FieldNames}] :
        \A f \in FieldNames : m[f] \in DeclarationsOf(f)}

NoFile == [exists |-> FALSE, body |-> NoValues]

EmptyDisk == [p \in DiskPaths |-> NoFile]

\* the value a source gives: named after the source, so that the origin of a
\* resolved value can be told
FileValue(path) ==
    CASE path = <<"a">> -> "file_a"
      [] path = <<"b">> -> "file_b"
      [] path = DefaultEnvFile -> "dotenv"

Only(f, v) == [g \in FieldNames |-> IF g = f THEN v ELSE Absent]

\* the schema of the tests: main_field with a default, linked_field referring
\* to it, unlinked_field without a value
SampleSettings ==
    [f \in FieldNames |->
        CASE f = "f1" -> [refer_to |-> NoRef, default |-> DefaultOf(f), nullable |-> TRUE]
          [] f = "f2" -> [refer_to |-> "f1", default |-> None, nullable |-> TRUE]
          [] OTHER -> [refer_to |-> NoRef, default |-> None, nullable |-> TRUE]]

\* Every schema over the declared fields, constructed with at most one
\* explicit argument and nothing in the environment or on disk.
InitSchemas ==
    /\ model_fields \in Schemas
    /\ \E f \in FieldNames, v \in {Absent, None, "k"} : init_kwargs = Only(f, v)
    /\ environ = NoValues
    /\ config_files_str = Unset
    /\ disk = EmptyDisk
    /\ secrets = NoValues

\* The schema of the tests, with every combination of sources for one field
\* and every CONFIG_FILES string.
InitSources ==
    /\ model_fields = SampleSettings
    /\ config_files_str \in ConfigFilesStrings
    /\ \E f \in {"f1", "f2"} :
          /\ init_kwargs \in {Only(f, v) : v \in {Absent, None, "k"}}
          /\ environ \in {Only(f, v) : v \in {Absent, "env"}}
          /\ secrets \in {Only(f, v) : v \in {Absent, "secret"}}
          /\ disk \in {[p \in DiskPaths |->
                          IF p \in P THEN [exists |-> TRUE, body |-> Only(f, FileValue(p))]
                          ELSE [exists |-> p \in E, body |-> NoValues]]
                       : P \in SUBSET DiskPaths, E \in SUBSET CascadePaths}

\* MysqlSettings.set_url: if not self.url, the url is built from the parts
set_url(url) == IF url = None THEN "mysql://root@localhost:3306/app" ELSE url

\* the default of Settings.MYSQL, an instance built without arguments
MysqlSettings == "MysqlSettings()"

\* the url attribute of a MYSQL value
mysql_url(mysql) == set_url(None)

\* the application Settings class, of which f1 stands for SECRET_KEY (required),
\* f2 for TEST_DATABASE_URL = refer_to_field(refer_to="MYSQL.url") and f3 for
\* MYSQL = MysqlSettings(), in their declaration order
Settings ==
    [f \in FieldNames |->
        CASE f = "f1" -> [refer_to |-> NoRef, default |-> Required, nullable |-> FALSE]
          [] f = "f2" -> [refer_to |-> "MYSQL.url", default |-> None, nullable |-> TRUE]
          [] OTHER -> [refer_to |-> NoRef, default |-> MysqlSettings, nullable |-> FALSE]]

\* The application settings, with or without SECRET_KEY in the environment
\* and with or without an explicit TEST_DATABASE_URL.
InitSettings ==
    /\ model_fields = Settings
    /\ init_kwargs \in {Only("f2", v) : v \in {Absent, "k"}}
    /\ environ \in {Only("f1", v) : v \in {Absent, "env"}}
    /\ config_files_str = Unset
    /\ disk = EmptyDisk
    /\ secrets = NoValues

\* the longest sequence of soft_delete and restore calls followed
MaxOps == 3

\* the last reading of the clock
MaxClock == 3

\* a datetime column: null, or the time it holds
NullDatetime == [is_null |-> TRUE, at |-> 0]

Datetime(t) == [is_null |-> FALSE, at |-> t]

\* a record just created: is_deleted default False, deleted_at null, saved
InitRecord ==
    /\ record = [is_deleted |-> FALSE, deleted_at |-> NullDatetime]
    /\ row = record
    /\ now = 1
    /\ ops = <<>>

\* the longest sequence of calls made on a manager and on the module
MaxCalls == 4

\* the times application_context is entered
MaxRuns == 2

\* self._pool = None, and connection_pool of a client bound to no pool
NoPool == 0

\* shared_redis_manager: Optional[RedisManager] = None
NoManager == [redis_url |-> None, redis_class |-> None, _pool |-> NoPool]

\* no call has returned yet
NoResult == [call |-> None, value |-> None, connection_pool |-> NoPool]

\* the URLs a manager is built with
RedisUrls == {"redis://localhost:6379/0", "fakeredis://"}

\* self._redis_url.startswith("fakeredis://")
startswith_fakeredis(redis_url) == redis_url \in {"fakeredis://", "fakeredis://localhost"}

\* set_debug: the class of the clients
set_debug(debug) == IF debug THEN "RedisWithDebugLogger" ELSE "Redis"

\* the pools after ConnectionPool.from_url of __init__: a URL that is not
\* fakeredis makes a new pool, disconnected no times
from_url(redis_url, ps) ==
    IF startswith_fakeredis(redis_url) THEN ps ELSE Append(ps, 0)

\* RedisManager(redis_url, debug), built when the pools are ps
RedisManager(redis_url, debug, ps) ==
    [redis_url |-> redis_url,
     redis_class |-> set_debug(debug),
     _pool |-> IF startswith_fakeredis(redis_url) THEN NoPool ELSE Len(ps) + 1]

\* no manager exists and no call was made
NoRedis ==
    /\ redis_manager = NoManager
    /\ shared_redis_manager = NoManager
    /\ pools = <<>>
    /\ result = NoResult
    /\ calls = <<>>

\* application_context was not entered
NoContext ==
    /\ ctx_pc = "idle"
    /\ DEBUG = FALSE
    /\ db = "uninit"
    /\ ctx = NoResult
    /\ exc = FALSE
    /\ runs = 0

Init ==
    /\ InitSchemas \/ InitSources \/ InitSettings
    /\ pc = "construct"
    /\ sources = <<>>
    /\ state = NoValues
    /\ values = NoValues
    /\ idx = 0
    /\ InitRecord
    /\ NoRedis
    /\ NoContext

---------------------------------------------------------------------------
(* The steps of a construction *)

\* settings_customise_sources is called with the four standard sources
settings_customise_sources ==
    /\ pc = "construct"
    /\ sources' = customise_sources(config_files_str)
    /\ pc' = "sources"
    /\ UNCHANGED <<record_vars, redis_vars, context_vars, inputs, state, values, idx>>

\* the sources are called in order and their values merged
settings_build_values ==
    /\ pc = "sources"
    /\ state' = build_values(sources, NoValues)
    /\ pc' = "validate"
    /\ UNCHANGED <<record_vars, redis_vars, context_vars, inputs, sources, values, idx>>

\* field validation succeeds: the instance gets its attributes and the
\* after-validator starts
validate_fields ==
    /\ pc = "validate"
    /\ validation_ok(state)
    /\ values' = validated_values(state)
    /\ idx' = 1
    /\ pc' = "fill_linked_fields"
    /\ UNCHANGED <<record_vars, redis_vars, context_vars, inputs, sources, state>>

\* field validation fails: ValidationError, no instance
raise_validation_error ==
    /\ pc = "validate"
    /\ ~validation_ok(state)
    /\ pc' = "ValidationError"
    /\ UNCHANGED <<record_vars, redis_vars, context_vars, inputs, sources, state, values, idx>>

\* one iteration of  for field_name, model_field in model_fields.items()
fill_linked_fields_step ==
    /\ pc = "fill_linked_fields"
    /\ idx <= Len(FieldOrder)
    /\ values' = fill_linked_field(values, FieldOrder[idx])
    /\ idx' = next_field(values', idx)
    /\ UNCHANGED <<record_vars, redis_vars, context_vars, inputs, sources, state, pc>>

\* return self: the instance is handed to the caller
return_self ==
    /\ pc = "fill_linked_fields"
    /\ idx > Len(FieldOrder)
    /\ pc' = "returned"
    /\ UNCHANGED <<record_vars, redis_vars, context_vars, inputs, sources, state, values, idx>>

Next ==
    \/ settings_customise_sources
    \/ settings_build_values
    \/ validate_fields
    \/ raise_validation_error
    \/ fill_linked_fields_step
    \/ return_self

Spec == Init /\ [][Next]_vars

\* the schemas whose fields all admit None or are required: every link graph
LinkSchemas ==
    {m \in Schemas : \A f \in FieldNames : m[f].nullable \/ m[f].default = Required}

InitLinkPass ==
    /\ InitSchemas
    /\ model_fields \in LinkSchemas
    /\ pc = "construct"
    /\ sources = <<>>
    /\ state = NoValues
    /\ values = NoValues
    /\ idx = 0
    /\ InitRecord
    /\ NoRedis
    /\ NoContext

\* Constructions over every link graph.  A construction is synchronous,
\* single-threaded code: a step that can be taken is taken.
LinkPassSpec == InitLinkPass /\ [][Next]_vars /\ WF_vars(Next)

---------------------------------------------------------------------------
(* SoftDeleteMixin of src/core/model.py *)

\* no settings instance is being constructed
NoConstruction ==
    /\ model_fields = SampleSettings
    /\ init_kwargs = NoValues
    /\ environ = NoValues
    /\ config_files_str = Unset
    /\ disk = EmptyDisk
    /\ secrets = NoValues
    /\ pc = "construct"
    /\ sources = <<>>
    /\ state = NoValues
    /\ values = NoValues
    /\ idx = 0

\* restore that clears the flag and leaves deleted_at
restore_fields_keep_deleted_at(rec) == [rec EXCEPT !.is_deleted = FALSE]

\* self.is_deleted = True; self.deleted_at = datetime.now(timezone.utc)
soft_delete_fields(rec, t) == [is_deleted |-> TRUE, deleted_at |-> Datetime(t)]

\* self.is_deleted = False; self.deleted_at = None
restore_fields(rec) == [is_deleted |-> FALSE, deleted_at |-> NullDatetime]

\* await record.soft_delete(): the fields are set, then save() writes the row
\* or raises
soft_delete ==
    /\ Len(ops) < MaxOps
    /\ record' = soft_delete_fields(record, now)
    /\ \E saved \in BOOLEAN : row' = IF saved THEN record' ELSE row
    /\ ops' = Append(ops, "soft_delete")
    /\ UNCHANGED <<settings_vars, redis_vars, context_vars, now>>

\* await record.restore()
restore ==
    /\ Len(ops) < MaxOps
    /\ record' = restore_fields(record)
    /\ \E saved \in BOOLEAN : row' = IF saved THEN record' ELSE row
    /\ ops' = Append(ops, "restore")
    /\ UNCHANGED <<settings_vars, redis_vars, context_vars, now>>

\* time passes between the calls
tick ==
    /\ now < MaxClock
    /\ now' = now + 1
    /\ UNCHANGED <<settings_vars, redis_vars, context_vars, record, row, ops>>

NextRecord == soft_delete \/ restore \/ tick

InitSoftDelete ==
    /\ NoConstruction
    /\ InitRecord
    /\ NoRedis
    /\ NoContext

SoftDeleteSpec == InitSoftDelete /\ [][NextRecord]_vars

---------------------------------------------------------------------------
(* RedisManager and the module-level functions of src/core/redis.py *)

\* cleanup that disconnects the pool and keeps self._pool
cleanup_keep_pool(manager) == manager

\* get_client: a FakeRedis for a fakeredis URL, RuntimeError when self._pool
\* is None, else self.redis_class(connection_pool=self._pool)
get_client(manager) ==
    IF startswith_fakeredis(manager.redis_url)
    THEN [value |-> "FakeRedis", connection_pool |-> NoPool]
    ELSE IF manager._pool = NoPool
         THEN [value |-> "RuntimeError", connection_pool |-> NoPool]
         ELSE [value |-> manager.redis_class, connection_pool |-> manager._pool]

\* the pools after cleanup: if self._pool: await self._pool.disconnect()
disconnect(manager, ps) ==
    IF manager._pool # NoPool THEN [ps EXCEPT ![manager._pool] = @ + 1] ELSE ps

\* the manager after cleanup: self._pool = None
cleanup(manager) == [manager EXCEPT !._pool = NoPool]

\* what a call returned, with the name of the call
returned(call, r) ==
    [call |-> call, value |-> r.value, connection_pool |-> r.connection_pool]

\* a manager built by its owner, before any call
InitRedis ==
    /\ \E redis_url \in RedisUrls, debug \in BOOLEAN :
        /\ redis_manager = RedisManager(redis_url, debug, <<>>)
        /\ pools = from_url(redis_url, <<>>)
    /\ shared_redis_manager = NoManager
    /\ result = NoResult
    /\ calls = <<>>

\* redis_manager.get_client()
call_get_client ==
    /\ Len(calls) < MaxCalls
    /\ result' = returned("get_client", get_client(redis_manager))
    /\ calls' = Append(calls, "get_client")
    /\ UNCHANGED <<settings_vars, record_vars, context_vars,
                   redis_manager, shared_redis_manager, pools>>

\* await redis_manager.cleanup()
call_cleanup ==
    /\ Len(calls) < MaxCalls
    /\ pools' = disconnect(redis_manager, pools)
    /\ redis_manager' = cleanup(redis_manager)
    /\ result' = [NoResult EXCEPT !.call = "cleanup"]
    /\ calls' = Append(calls, "cleanup")
    /\ UNCHANGED <<settings_vars, record_vars, context_vars, shared_redis_manager>>

\* init(redis_url)
init ==
    /\ Len(calls) < MaxCalls
    /\ \E redis_url \in RedisUrls :
        /\ shared_redis_manager' = RedisManager(redis_url, FALSE, pools)
        /\ pools' = from_url(redis_url, pools)
    /\ result' = [NoResult EXCEPT !.call = "init"]
    /\ calls' = Append(calls, "init")
    /\ UNCHANGED <<settings_vars, record_vars, context_vars, redis_manager>>

\* get_redis()
get_redis ==
    /\ Len(calls) < MaxCalls
    /\ result' = IF shared_redis_manager = NoManager
                 THEN [NoResult EXCEPT !.call = "get_redis", !.value = "RuntimeError"]
                 ELSE returned("get_redis", get_client(shared_redis_manager))
    /\ calls' = Append(calls, "get_redis")
    /\ UNCHANGED <<settings_vars, record_vars, context_vars,
                   redis_manager, shared_redis_manager, pools>>

\* await close()
close ==
    /\ Len(calls) < MaxCalls
    /\ IF shared_redis_manager # NoManager
       THEN /\ pools' = disconnect(shared_redis_manager, pools)
            /\ shared_redis_manager' = cleanup(shared_redis_manager)
       ELSE UNCHANGED <<shared_redis_manager, pools>>
    /\ result' = [NoResult EXCEPT !.call = "close"]
    /\ calls' = Append(calls, "close")
    /\ UNCHANGED <<settings_vars, record_vars, context_vars, redis_manager>>

NextRedis == call_get_client \/ call_cleanup \/ init \/ get_redis \/ close

InitRedisManager ==
    /\ NoConstruction
    /\ InitRecord
    /\ InitRedis
    /\ NoContext

RedisSpec == InitRedisManager /\ [][NextRedis]_vars

---------------------------------------------------------------------------
(* application_context of src/core/context.py *)

\* application_context is entered: redis_manager = RedisManager(redis_url=
\* settings.REDIS.url.unicode_string(), debug=settings.DEBUG)
enter ==
    /\ ctx_pc \in {"idle", "exited", "raised"}
    /\ runs < MaxRuns
    /\ runs' = runs + 1
    /\ \E redis_url \in RedisUrls, debug \in BOOLEAN :
        /\ DEBUG' = debug
        /\ redis_manager' = RedisManager(redis_url, debug, pools)
        /\ pools' = from_url(redis_url, pools)
    /\ ctx' = NoResult
    /\ exc' = FALSE
    /\ ctx_pc' = "init_db"
    /\ UNCHANGED <<settings_vars, record_vars, shared_redis_manager, result, calls, db>>

\* await databases.init_db(), before the try: Tortoise.init raises, or it
\* connects and generate_schemas, run when DEBUG, raises, or init_db returns
init_db ==
    /\ ctx_pc = "init_db"
    /\ \/ /\ ctx_pc' = "raised"
          /\ UNCHANGED db
       \/ /\ DEBUG
          /\ db' = "open"
          /\ ctx_pc' = "raised"
       \/ /\ db' = "open"
          /\ ctx_pc' = "get_client"
    /\ UNCHANGED <<settings_vars, record_vars, redis_vars, DEBUG, ctx, exc, runs>>

\* ctx = AppContext(redis=redis_manager.get_client()), before the try
make_context ==
    /\ ctx_pc = "get_client"
    /\ ctx' = returned("get_client", get_client(redis_manager))
    /\ ctx_pc' = IF ctx'.value = "RuntimeError" THEN "raised" ELSE "yield"
    /\ UNCHANGED <<settings_vars, record_vars, redis_vars, DEBUG, db, exc, runs>>

\* yield ctx: the body returns, or raises
body ==
    /\ ctx_pc = "yield"
    /\ exc' \in BOOLEAN
    /\ ctx_pc' = "cleanup"
    /\ UNCHANGED <<settings_vars, record_vars, redis_vars, DEBUG, db, ctx, runs>>

\* finally: await redis_manager.cleanup()
finally_cleanup ==
    /\ ctx_pc = "cleanup"
    /\ pools' = disconnect(redis_manager, pools)
    /\ redis_manager' = cleanup(redis_manager)
    /\ ctx_pc' = "close_db"
    /\ UNCHANGED <<settings_vars, record_vars, shared_redis_manager, result, calls,
                   DEBUG, db, ctx, exc, runs>>

\* finally: await databases.close_db(), then the exception of the body, if
\* any, leaves application_context
close_db ==
    /\ ctx_pc = "close_db"
    /\ db' = "closed"
    /\ ctx_pc' = IF exc THEN "raised" ELSE "exited"
    /\ UNCHANGED <<settings_vars, record_vars, redis_vars, DEBUG, ctx, exc, runs>>

NextContext ==
    enter \/ init_db \/ make_context \/ body \/ finally_cleanup \/ close_db

InitContext ==
    /\ NoConstruction
    /\ InitRecord
    /\ NoRedis
    /\ NoContext

ContextSpec == InitContext /\ [][NextContext]_vars

---------------------------------------------------------------------------
(* Properties *)

Constructed == pc = "returned"

Linked(f) == model_fields[f].refer_to # NoRef

\* the paths of CONFIG_FILES in listed order (none when unset or empty)
ListedFiles ==
    IF config_files_str.present /\ config_files_str.text # <<>>
    THEN config_files(config_files_str.text)
    ELSE <<>>

IsFile(path) == path \in DOMAIN disk /\ disk[path].exists

\* what the file at a path says about field f
FileGives(path, f) == IF IsFile(path) THEN disk[path].body[f] ELSE Absent

\* some source below the construction arguments gives f a value
LowerSourceGives(f) ==
    \/ environ[f] # Absent
    \/ secrets[f] # Absent
    \/ \E p \in DiskPaths : FileGives(p, f) # Absent

\* C1 as stated: every explicitly supplied value, None included, is the
\* field's value in the constructed instance.
C1_ExplicitAlwaysKept ==
    Constructed =>
        \A f \in FieldNames : init_kwargs[f] # Absent => values[f] = init_kwargs[f]

\* C1 as amended: an explicitly supplied value is the field's value in the
\* constructed instance unless it is None and the field is declared with
\* refer_to_field; an explicit None of a linked field is replaced by the
\* referenced field's value when that value is not None.
C1_ExplicitKeptUnlessLinkedNone ==
    Constructed =>
        \A f \in FieldNames :
            /\ init_kwargs[f] # Absent /\ ~(init_kwargs[f] = None /\ Linked(f))
                  => values[f] = init_kwargs[f]
            /\ init_kwargs[f] = None /\ Linked(f)
                  => values[f] = referred_value(values, model_fields[f].refer_to)
                       \/ values[f] = None

\* an instance built with an explicit value for a linked field, while the
\* environment gives that field another value and the referenced field holds
\* a third one
C1_Witness ==
    /\ Constructed
    /\ \E f \in FieldNames :
          /\ init_kwargs[f] = "k"
          /\ environ[f] = "env"
          /\ model_fields[f].refer_to \in FieldNames
          /\ values[model_fields[f].refer_to] \notin {None, "k"}
          /\ values[f] = "k"

\* C2: a field with an environment value and no explicit argument holds the
\* environment value in the constructed instance, whatever the files say.
C2_EnvBeatsFiles ==
    Constructed =>
        \A f \in FieldNames :
            init_kwargs[f] = Absent /\ environ[f] # Absent => values[f] = environ[f]

\* an instance whose field comes from the environment although a listed
\* CONFIG_FILES file and the default .env file both give it a value
C2_Witness ==
    /\ Constructed
    /\ \E f \in FieldNames :
          /\ init_kwargs[f] = Absent
          /\ environ[f] = "env"
          /\ \E i \in 1..Len(ListedFiles) : FileGives(ListedFiles[i], f) # Absent
          /\ FileGives(DefaultEnvFile, f) # Absent
          /\ values[f] = "env"

\* C3: a field given by neither the arguments nor the environment, and
\* defined by some listed file, has the value of the last-listed file that
\* defines it.
C3_LastListedFileWins ==
    Constructed =>
        \A f \in FieldNames :
            /\ init_kwargs[f] = Absent /\ environ[f] = Absent
            => \A i \in 1..Len(ListedFiles) :
                    /\ FileGives(ListedFiles[i], f) # Absent
                    /\ \A j \in (i + 1)..Len(ListedFiles) :
                           FileGives(ListedFiles[j], f) = Absent
                    => values[f] = FileGives(ListedFiles[i], f)

\* an instance built from two listed files that both define the field: the
\* later-listed one gave the value
C3_Witness ==
    /\ Constructed
    /\ \E f \in FieldNames :
          /\ init_kwargs[f] = Absent /\ environ[f] = Absent
          /\ Len(ListedFiles) = 2
          /\ FileGives(ListedFiles[1], f) = "file_a"
          /\ FileGives(ListedFiles[2], f) = "file_b"
          /\ values[f] = "file_b"

\* the value field f holds when the after-validator starts
AfterMerge(f) == field_input(state, f)

\* C4 as stated: a linked field that no source supplies (None after the
\* merge) ends with the final value of the field it refers to.
C4_LinkedTakesFinalReferredValue ==
    Constructed =>
        \A f \in FieldNames :
            /\ model_fields[f].refer_to \in FieldNames
            /\ state[f] = Absent
            /\ AfterMerge(f) = None
            => values[f] = values[model_fields[f].refer_to]

\* the chains of links: sequences of distinct fields, each referring to the next
Chains ==
    {c \in UNION {[1..k -> FieldNames] : k \in 2..Len(FieldOrder)} :
        /\ \A i, j \in DOMAIN c : i # j => c[i] # c[j]
        /\ \A i \in 1..(Len(c) - 1) : model_fields[c[i]].refer_to = c[i + 1]}

\* only the last field of the chain has a value after the merge
OnlyEndHasValue(c) ==
    /\ AfterMerge(c[Len(c)]) # None
    /\ \A i \in 1..(Len(c) - 1) : AfterMerge(c[i]) = None

\* C5 as stated: in a chain of links of which only the last field has a
\* value after the merge, every field of the chain ends with that value,
\* whatever the declaration order.
C5_ChainsResolveInAnyOrder ==
    Constructed =>
        \A c \in Chains :
            OnlyEndHasValue(c) => \A i \in DOMAIN c : values[c[i]] = AfterMerge(c[Len(c)])

\* C6 as stated: no instance is returned for a schema with a link to a
\* field name that is not declared.
C6_NonexistentReferenceFails ==
    Constructed => \A f \in FieldNames : model_fields[f].refer_to \in FieldNames \cup {NoRef}

\* C7: a linked field that is not None after the merge keeps that value
\* through the link pass.
C7_LinkedValueKept ==
    pc \in {"fill_linked_fields", "returned"} =>
        \A f \in FieldNames : Linked(f) /\ AfterMerge(f) # None => values[f] = AfterMerge(f)

\* an instance whose linked field took its value from a CONFIG_FILES file
\* while the referenced field holds another value
C7_Witness ==
    /\ Constructed
    /\ \E f \in FieldNames :
          /\ model_fields[f].refer_to \in FieldNames
          /\ state[f] = "file_a"
          /\ values[model_fields[f].refer_to] \notin {None, "file_a"}
          /\ values[f] = "file_a"

RECURSIVE FirstGiven(_)
\* the first value of a sequence of candidates that is not Absent
FirstGiven(candidates) ==
    IF candidates = <<>> THEN Absent
    ELSE IF Head(candidates) # Absent THEN Head(candidates)
    ELSE FirstGiven(Tail(candidates))

\* the listed paths at which there is a file, in listed order
ListedExisting == SelectSeq(ListedFiles, IsFile)

\* the merge when the listed paths at which there is no file are left out
\* of the list
MergeWithoutMissing ==
    [f \in FieldNames |->
        FirstGiven(
            <<init_kwargs[f], environ[f]>>
                \o [i \in 1..Len(ListedExisting) |->
                      disk[ListedExisting[Len(ListedExisting) + 1 - i]].body[f]]
                \o <<FileGives(DefaultEnvFile, f), secrets[f]>>)]

\* C8: listed paths at which there is no file contribute nothing: the merge
\* gives every field the value it gets with those paths left out of the
\* list, and validation is then reached, not an error of the sources.
C8_MissingFilesIgnored ==
    pc \in {"validate", "ValidationError"} => state = MergeWithoutMissing

\* an instance built although a listed path is no file, with a field taken
\* from the other listed file
C8_Witness ==
    /\ Constructed
    /\ Len(ListedFiles) = 2
    /\ \E i \in 1..2 : ~IsFile(ListedFiles[i])
    /\ \E f \in FieldNames, i \in 1..2 :
          /\ IsFile(ListedFiles[i])
          /\ values[f] = disk[ListedFiles[i]].body[f]
          /\ values[f] # Absent

\* the candidates for field f in the order of the chain
Candidates(f) ==
    <<init_kwargs[f], environ[f]>>
        \o [i \in 1..Len(ListedFiles) |-> FileGives(ListedFiles[Len(ListedFiles) + 1 - i], f)]
        \o <<FileGives(DefaultEnvFile, f), secrets[f]>>

\* C9: after the merge every field has the value of the first source that
\* provides it in the order arguments, environment, CONFIG_FILES files from
\* last-listed to first-listed, default .env file, secrets; else its default.
C9_FirstSourceWins ==
    /\ pc = "validate" => \A f \in FieldNames : state[f] = FirstGiven(Candidates(f))
    /\ pc = "fill_linked_fields" /\ idx = 1 =>
          \A f \in FieldNames :
              values[f] = IF FirstGiven(Candidates(f)) # Absent
                          THEN FirstGiven(Candidates(f))
                          ELSE model_fields[f].default

\* after a merge in which a listed file, the default .env file and the
\* secrets all give the field a value, the field has the listed file's value
C9_Witness ==
    /\ pc = "fill_linked_fields" /\ idx = 1
    /\ \E f \in FieldNames :
          /\ init_kwargs[f] = Absent /\ environ[f] = Absent
          /\ \E i \in 1..Len(ListedFiles) : FileGives(ListedFiles[i], f) = "file_a"
          /\ FileGives(DefaultEnvFile, f) = "dotenv"
          /\ secrets[f] = "secret"
          /\ values[f] = "file_a"

\* C10: with CONFIG_FILES unset or empty the chain is exactly the four
\* standard sources in order, and the default .env file is read.
C10_NoCascadeWhenUnsetOrEmpty ==
    ~config_files_str.present \/ config_files_str.text = <<>> =>
        /\ pc # "construct" =>
              sources = <<init_settings, env_settings, dotenv_settings, file_secret_settings>>
        /\ pc = "validate" =>
              \A f \in FieldNames :
                  init_kwargs[f] = Absent /\ environ[f] = Absent /\ IsFile(DefaultEnvFile)
                      /\ disk[DefaultEnvFile].body[f] # Absent
                  => state[f] = disk[DefaultEnvFile].body[f]

\* an instance built with CONFIG_FILES set to the empty string, a field of
\* which came from the default .env file
C10_Witness ==
    /\ Constructed
    /\ config_files_str.present /\ config_files_str.text = <<>>
    /\ Len(sources) = 4
    /\ \E f \in FieldNames : values[f] = "dotenv"

\* C11 as stated: in a returned instance no linked field is None while the
\* field it refers to holds a value.
C11_NoPartiallyResolvedInstance ==
    Constructed =>
        \A f \in FieldNames :
            model_fields[f].refer_to \in FieldNames =>
                ~(values[f] = None /\ values[model_fields[f].refer_to] # None)

\* the field must get a value: its type does not admit None and its
\* declaration gives no value of its own
NeedsValue(f) ==
    ~model_fields[f].nullable /\ model_fields[f].default \in {Required, None}

\* the link of f names a declared field that holds a value after the merge
LinkSatisfied(f) ==
    /\ model_fields[f].refer_to \in FieldNames
    /\ AfterMerge(model_fields[f].refer_to) \notin {None, Required}

\* a required field with no value from any source and no satisfied link
MissingValue(f) == NeedsValue(f) /\ state[f] = Absent /\ ~LinkSatisfied(f)

\* a source supplied None for a field whose type does not admit it
RejectedValue(f) == state[f] = None /\ ~model_fields[f].nullable

\* C12 as stated: construction fails for a missing value exactly when some
\* required field has no value from any source and no satisfied link; a
\* required field whose link is satisfied does not make construction fail.
C12_FailsExactlyForUnsatisfiedRequired ==
    /\ Constructed => \A f \in FieldNames : ~MissingValue(f)
    /\ pc = "ValidationError" /\ (\A f \in FieldNames : ~RejectedValue(f))
          => \E f \in FieldNames : MissingValue(f)

\* the cycles of links: sequences of distinct fields, each referring to the
\* next and the last to the first (a field referring to itself included)
Cycles ==
    {c \in UNION {[1..k -> FieldNames] : k \in 1..Len(FieldOrder)} :
        /\ \A i, j \in DOMAIN c : i # j => c[i] # c[j]
        /\ \A i \in 1..(Len(c) - 1) : model_fields[c[i]].refer_to = c[i + 1]
        /\ model_fields[c[Len(c)]].refer_to = c[1]}

\* C13: the link pass terminates for every link graph: once started it
\* reaches return self, each step of it moves on to the next declared field,
\* so that every field is visited exactly once, and the fields of a cycle
\* that are all None after the merge are all None in the returned instance.
C13_LinkPassTerminates ==
    /\ (pc = "fill_linked_fields") ~> (pc = "returned")
    /\ [][pc = "fill_linked_fields" /\ idx <= Len(FieldOrder)
            => pc' = "fill_linked_fields" /\ idx' = idx + 1]_vars
    /\ [](Constructed =>
            /\ idx = Len(FieldOrder) + 1
            /\ \A c \in Cycles :
                  (\A i \in DOMAIN c : AfterMerge(c[i]) = None)
                      => \A i \in DOMAIN c : values[c[i]] = None)

\* an instance returned for a schema with a cycle of two fields that were
\* both None after the merge
C13_Witness ==
    /\ Constructed
    /\ \E c \in Cycles :
          /\ Len(c) = 2
          /\ \A i \in DOMAIN c : AfterMerge(c[i]) = None /\ values[c[i]] = None

\* C14: an iteration of the link pass changes at most the field it visits,
\* and only if that field carries refer_to metadata and holds None; the value
\* written is the value the referenced field holds at that moment.
C14_LinkPassFrame ==
    [][pc = "fill_linked_fields" /\ idx <= Len(FieldOrder) =>
          LET f == FieldOrder[idx]
          IN  /\ \A g \in FieldNames \ {f} : values'[g] = values[g]
              /\ ~Linked(f) \/ values[f] # None => values'[f] = values[f]
              /\ values'[f] # values[f] =>
                    /\ model_fields[f].refer_to \in FieldNames
                    /\ values'[f] = values[model_fields[f].refer_to]]_vars

\* the link pass has just written into a linked field the value of the field
\* it refers to, a value that field got from an explicit argument
C14_Witness ==
    /\ pc = "fill_linked_fields"
    /\ idx > 1
    /\ LET f == FieldOrder[idx - 1]
       IN  /\ model_fields[f].refer_to \in FieldNames
           /\ AfterMerge(f) = None
           /\ values[f] = "k"
           /\ init_kwargs[model_fields[f].refer_to] = "k"

\* C15 as stated: a Settings instance built without a value for
\* TEST_DATABASE_URL has TEST_DATABASE_URL equal to the url of its MYSQL
\* sub-settings.
C15_TestDatabaseUrlFollowsMysqlUrl ==
    Constructed /\ model_fields = Settings /\ state["f2"] = Absent
        => values["f2"] = mysql_url(values["f3"])

\* C16: after any sequence of soft_delete and restore calls is_deleted is
\* True exactly when deleted_at is not null: a new record is not deleted,
\* after soft_delete both say deleted, after restore both say not deleted.
C16_DeletedIffDeletedAt ==
    /\ record.is_deleted <=> ~record.deleted_at.is_null
    /\ row.is_deleted <=> ~row.deleted_at.is_null
    /\ ops = <<>> => ~record.is_deleted
    /\ ops # <<>> => (record.is_deleted <=> ops[Len(ops)] = "soft_delete")

\* a record deleted, restored and saved, at a later time than its deletion
C16_Witness ==
    /\ ops = <<"soft_delete", "restore">>
    /\ now > 1
    /\ row = record
    /\ ~record.is_deleted /\ record.deleted_at.is_null

\* application_context has finished, by returning or by raising
Finished == ctx_pc \in {"exited", "raised"}

\* C17: once application_context has created the RedisManager and its pool,
\* the pool is disconnected and the database connections are closed before
\* application_context finishes, on every path: normal exit of the body, an
\* exception of the body, an exception of databases.init_db during startup.
C17_CleanedUpOnEveryPath ==
    Finished =>
        /\ \A p \in 1..Len(pools) : pools[p] >= 1
        /\ db # "open"

\* the pool the manager was built with
built_pool(manager) == RedisManager(manager.redis_url, FALSE, <<>>)._pool

CleanupCalled == \E i \in 1..Len(calls) : calls[i] = "cleanup"

InitCalled == \E i \in 1..Len(calls) : calls[i] = "init"

\* C18: for a manager whose URL does not start with fakeredis://, in any
\* sequence of get_client and cleanup calls, get_client returns a client
\* bound to the manager's pool exactly when cleanup was not called yet and
\* raises RuntimeError after it; a second cleanup disconnects nothing and
\* raises nothing; get_redis raises RuntimeError while init was not called.
C18_ClientUntilCleanup ==
    /\ ~startswith_fakeredis(redis_manager.redis_url) =>
        /\ result.call = "get_client" =>
            /\ ~CleanupCalled <=>
                /\ result.value = redis_manager.redis_class
                /\ result.connection_pool = built_pool(redis_manager)
            /\ CleanupCalled <=> result.value = "RuntimeError"
        /\ result.call = "cleanup" => result.value = None
        /\ pools[built_pool(redis_manager)] = IF CleanupCalled THEN 1 ELSE 0
        /\ redis_manager._pool = IF CleanupCalled THEN NoPool ELSE built_pool(redis_manager)
    /\ (result.call = "get_redis" /\ ~InitCalled) => result.value = "RuntimeError"

\* get_client raised RuntimeError after two cleanups of a manager with a pool
C18_Witness ==
    /\ ~startswith_fakeredis(redis_manager.redis_url)
    /\ calls = <<"get_client", "cleanup", "cleanup", "get_client">>
    /\ result.value = "RuntimeError"
    /\ pools = <<1>>

===========================================================================
